---- MODULE Spec2Model ----
(***************************************************************************)
(* Model of nanopore-mods: the per-read accumulator mod_prob_stats, the    *)
(* two formatters mod_prob_stats_fmt / mod_prob_stats_fmt_stranded and the *)
(* control flow of main.  The alignment reader (htslib) is the             *)
(* environment: every call into it is a nondeterministic choice over the   *)
(* results its interface allows.                                           *)
(***************************************************************************)
EXTENDS Integers, Sequences, FiniteSets, TLC

\* ---------------------------------------------------------------- bounds
MaxLen == 2          \* longest read (l_qseq)
MaxN == 2            \* largest count bam_next_basemod reports at one site
MaxSites == 2        \* call sites enumerated over the whole run

\* --------------------------------------------------- program constants
n_nucs == 4
max_mods == 10
n_values == 256
h_idx == 0
m_idx == 1
EXIT_SUCCESS == 0
EXIT_FAILURE == 1
EOF_STATUS == -1

\* The quality byte (0..255) the reader stores for the i-th modification of a
\* site in the explored runs: hydroxy (index 0) and methyl (index 1) get
\* different values, both different from the zero the scratch buffer starts
\* with, so every cell an increment can land in is told apart.
ReportedQual(i) == IF i = h_idx THEN 7 ELSE IF i = m_idx THEN 255 ELSE 100
\* 4-bit base codes stored in the explored reads: A, T, N
NucCodes == {1, 8, 15}
\* negative statuses of sam_read1 other than end of stream
ErrStatuses == {-2}

\* ------------------------------------------------------------- encoder
\* faulty variant: lower-case bases are accepted too
encoding_lower ==
  [b \in 0..255 |->
     IF b \in {65, 97} THEN 0 ELSE IF b \in {67, 99} THEN 1
     ELSE IF b \in {71, 103} THEN 2 ELSE IF b \in {84, 116} THEN 3 ELSE 4]

\* faulty variant: entry 0 (the absent neighbour) left at 0 instead of 4
encoding_nul ==
  [b \in 0..255 |->
     IF b \in {0, 65} THEN 0 ELSE IF b = 67 THEN 1
     ELSE IF b = 71 THEN 2 ELSE IF b = 84 THEN 3 ELSE 4]

\* the table of lines 39-56, entry for entry
encoding_table ==
  <<
     4, 4, 4, 4, 4, 4, 4, 4, 4, 4, 4, 4, 4, 4, 4, 4,   \* 16
     4, 4, 4, 4, 4, 4, 4, 4, 4, 4, 4, 4, 4, 4, 4, 4,   \* 32
     4, 4, 4, 4, 4, 4, 4, 4, 4, 4, 4, 4, 4, 4, 4, 4,   \* 48
     4, 4, 4, 4, 4, 4, 4, 4, 4, 4, 4, 4, 4, 4, 4, 4,   \* 64
     4, 0, 4, 1, 4, 4, 4, 2, 4, 4, 4, 4, 4, 4, 4, 4,   \* 80
     4, 4, 4, 4, 3, 4, 4, 4, 4, 4, 4, 4, 4, 4, 4, 4,   \* 96
     4, 4, 4, 4, 4, 4, 4, 4, 4, 4, 4, 4, 4, 4, 4, 4,   \* 112
     4, 4, 4, 4, 4, 4, 4, 4, 4, 4, 4, 4, 4, 4, 4, 4,   \* 128
     4, 4, 4, 4, 4, 4, 4, 4, 4, 4, 4, 4, 4, 4, 4, 4,   \* 144
     4, 4, 4, 4, 4, 4, 4, 4, 4, 4, 4, 4, 4, 4, 4, 4,   \* 160
     4, 4, 4, 4, 4, 4, 4, 4, 4, 4, 4, 4, 4, 4, 4, 4,   \* 176
     4, 4, 4, 4, 4, 4, 4, 4, 4, 4, 4, 4, 4, 4, 4, 4,   \* 192
     4, 4, 4, 4, 4, 4, 4, 4, 4, 4, 4, 4, 4, 4, 4, 4,   \* 208
     4, 4, 4, 4, 4, 4, 4, 4, 4, 4, 4, 4, 4, 4, 4, 4,   \* 224
     4, 4, 4, 4, 4, 4, 4, 4, 4, 4, 4, 4, 4, 4, 4, 4,   \* 240
     4, 4, 4, 4, 4, 4, 4, 4, 4, 4, 4, 4, 4, 4, 4, 4   \* 256
  >>

encoding == [b \in 0..255 |-> encoding_table[b + 1]]

\* htslib's seq_nt16_str, "=ACMGRSVTWYHKDBN", as byte values
seq_nt16_str ==
  [c \in 0..15 |->
     <<61, 65, 67, 77, 71, 82, 83, 86, 84, 87, 89, 72, 75, 68, 66, 78>>[c + 1]]

\* bam_seqi(seq, i): the 4-bit code of base i (0-based)
bam_seqi(seq, i) == seq[i + 1]

\* faulty variant: the last name repeats the first
dinucs_dup == [i \in 0..3 |-> <<"CA", "CC", "CG", "CA">>[i + 1]]

dinucs == [i \in 0..3 |-> <<"CA", "CC", "CG", "CT">>[i + 1]]

\* faulty variant: the reverse names are not mirrored
dinucs_rev_same == [i \in 0..3 |-> <<"CA", "CC", "CG", "CT">>[i + 1]]

\* faulty variant: a name occurs twice
dinucs_rev_dup == [i \in 0..3 |-> <<"CT", "CG", "CG", "CA">>[i + 1]]

dinucs_rev == [i \in 0..3 |-> <<"CT", "CG", "CC", "CA">>[i + 1]]

\* ------------------------------------------------------------- state
VARIABLES
  pc,            \* position of main / operator()
  stranded,      \* --stranded flag
  read_status,   \* last result of sam_read1
  aln,           \* the record buffer: [is_rev, seq]
  m,             \* hts_base_mod_state: read offset the enumeration resumes at
  mods,          \* scratch buffer: qual of mods[0..max_mods-1]
  n, pos,        \* locals of operator(): result of bam_next_basemod
  other_nuc, other_enc,   \* locals of the loop body
  methyl_fwd, methyl_rev, hydroxy_fwd, hydroxy_rev,
  out_open,      \* the output sink has been opened
  out,           \* the report written to the sink
  exit_status,   \* completion status of the run
  n_sites        \* how many call sites the reader has enumerated so far

raw == <<methyl_fwd, methyl_rev, hydroxy_fwd, hydroxy_rev>>
vars == <<pc, stranded, read_status, aln, m, mods, n, pos, other_nuc,
          other_enc, methyl_fwd, methyl_rev, hydroxy_fwd, hydroxy_rev,
          out_open, out, exit_status, n_sites>>

ZeroTable == [c \in 0..(n_nucs - 1) |-> [q \in 0..(n_values - 1) |-> 0]]
NoReport == [layout |-> "none"]
NoRecord == [is_rev |-> FALSE, seq |-> <<>>]   \* bam_init1()
Running == "running"
Aborted == "aborted"     \* uncaught exception: std::terminate


\* -------------------------------------------------- formatters
\* std::map operator[] assignment: the last value stored under a key wins
MapPut(mp, k, v) ==
  [x \in (DOMAIN mp) \cup {k} |-> IF x = k THEN v ELSE mp[x]]

EmptyMap == [x \in {} |-> 0]

\* v_sum(a, b): a[q] += b[q] for every q
v_sum(a, b) == [q \in DOMAIN a |-> a[q] + b[q]]

\* the loop "for i in 0..n_nucs-1: v_sum(work[i], r[n_nucs-1-i])"
RECURSIVE sum_rows(_, _, _)
sum_rows(work, r, i) ==
  IF i >= n_nucs THEN work
  ELSE sum_rows([work EXCEPT ![i] = v_sum(work[i], r[n_nucs - 1 - i])], r, i + 1)

\* the loop "for (idx, vals) in enumerate(x): result[y[idx]] = vals"
RECURSIVE fill_map(_, _, _, _)
fill_map(result, x, y, idx) ==
  IF idx >= n_nucs THEN result
  ELSE fill_map(MapPut(result, y[idx], x[idx]), x, y, idx + 1)

\* faulty variant: reverse row i is added to forward row i
sum_to_map_same_index(f, r) ==
  fill_map(EmptyMap, [i \in 0..(n_nucs - 1) |-> v_sum(f[i], r[i])], dinucs, 0)

sum_to_map(f, r) == fill_map(EmptyMap, sum_rows(f, r, 0), dinucs, 0)

to_map(x, y) == fill_map(EmptyMap, x, y, 0)

mod_prob_stats_fmt(mf, mr, hf, hr) ==
  [layout |-> "collapsed",
   methyl |-> sum_to_map(mf, mr),
   hydroxy |-> sum_to_map(hf, hr)]

mod_prob_stats_fmt_stranded(mf, mr, hf, hr) ==
  [layout |-> "stranded",
   methyl_fwd |-> to_map(mf, dinucs),
   methyl_rev |-> to_map(mr, dinucs_rev),
   hydroxy_fwd |-> to_map(hf, dinucs),
   hydroxy_rev |-> to_map(hr, dinucs_rev)]

\* -------------------------------------------------- accumulator
\* table[c][q]++
Incr(table, c, q) == [table EXCEPT ![c][q] = @ + 1]

\* the neighbour byte of the site at p (lines 105-107)
\* faulty variant: the strand is ignored
NeighborNuc_always_next(is_rev, seq, qlen, p) ==
  IF p + 1 < qlen THEN seq_nt16_str[bam_seqi(seq, p + 1)] ELSE 0

NeighborNuc(is_rev, seq, qlen, p) ==
  IF is_rev
    THEN (IF p > 0 THEN seq_nt16_str[bam_seqi(seq, p - 1)] ELSE 0)
    ELSE (IF p + 1 < qlen THEN seq_nt16_str[bam_seqi(seq, p + 1)] ELSE 0)

\* "if (n < m_idx) continue;"
TooFewMods(k) == k < m_idx

\* the four tables after the increments of lines 112-119
\* faulty variant: the reverse branch increments methyl_fwd
Count_rev_methyl_to_fwd(t, is_rev, enc, hq, mq) ==
  IF is_rev
    THEN <<Incr(t[1], enc, mq), t[2], t[3], Incr(t[4], enc, hq)>>
    ELSE <<Incr(t[1], enc, mq), t[2], Incr(t[3], enc, hq), t[4]>>

Count(t, is_rev, enc, hq, mq) ==
  IF is_rev
    THEN <<t[1], Incr(t[2], enc, mq), t[3], Incr(t[4], enc, hq)>>
    ELSE <<Incr(t[1], enc, mq), t[2], Incr(t[3], enc, hq), t[4]>>

\* "read_status < -1" (line 214)
\* faulty variant: -2 is taken for the end of the stream
ReadFailed_off_by_one(status) == status < EOF_STATUS - 1

ReadFailed(status) == status < EOF_STATUS

\* -------------------------------------------------- initial state
Init ==
  /\ pc = "read"
  /\ stranded \in BOOLEAN
  /\ read_status = 0
  /\ aln = NoRecord
  /\ m = 0
  /\ mods = [i \in 0..(max_mods - 1) |-> 0]
  /\ n = 0 /\ pos = 0
  /\ other_nuc = 0 /\ other_enc = n_nucs
  /\ methyl_fwd = ZeroTable /\ methyl_rev = ZeroTable
  /\ hydroxy_fwd = ZeroTable /\ hydroxy_rev = ZeroTable
  /\ out_open = FALSE
  /\ out = NoReport
  /\ exit_status = Running
  /\ n_sites = 0

Reads ==
  {[is_rev |-> r, seq |-> s] :
     r \in BOOLEAN, s \in UNION {[1..l -> NucCodes] : l \in 1..MaxLen}}

\* sam_read1 returns >= 0 and operator() starts: bam_parse_basemod
ReadRecord ==
  /\ pc = "read"
  /\ \E rec \in Reads :
       /\ aln' = rec
       /\ read_status' = 0
       /\ m' = 0
       /\ n' = 0 /\ pos' = 0
       /\ pc' = "mods"
  /\ UNCHANGED <<stranded, mods, other_nuc, other_enc, methyl_fwd, methyl_rev,
                 hydroxy_fwd, hydroxy_rev, out_open, out, exit_status, n_sites>>

\* one iteration of the while loop: bam_next_basemod returns k > 0 at p,
\* having stored the first k entries of the scratch buffer
NextSite ==
  /\ pc = "mods"
  /\ n_sites < MaxSites
  /\ \E k \in 1..MaxN, p \in m..(Len(aln.seq) - 1) :
       LET d == [i \in 0..(max_mods - 1) |->
                   IF i < k THEN ReportedQual(i) ELSE mods[i]]
           nuc == NeighborNuc(aln.is_rev, aln.seq, Len(aln.seq), p)
           enc == encoding[nuc]
           t == IF TooFewMods(k) \/ enc = n_nucs
                  THEN raw
                  ELSE Count(raw, aln.is_rev, enc, d[h_idx], d[m_idx])
       IN /\ n' = k /\ pos' = p /\ m' = p + 1
          /\ mods' = d
          /\ other_nuc' = (IF TooFewMods(k) THEN other_nuc ELSE nuc)
          /\ other_enc' = (IF TooFewMods(k) THEN other_enc ELSE enc)
          /\ methyl_fwd' = t[1] /\ methyl_rev' = t[2]
          /\ hydroxy_fwd' = t[3] /\ hydroxy_rev' = t[4]
          /\ n_sites' = n_sites + 1
  /\ UNCHANGED <<pc, stranded, read_status, aln, out_open, out, exit_status>>

\* bam_next_basemod returns 0 or a negative error: the loop ends and
\* operator() returns.  Its locals go out of scope, and nothing reads the
\* record buffer or the enumeration state again before sam_read1 and
\* bam_parse_basemod overwrite them, so they go back to their empty values.
EndSites ==
  /\ pc = "mods"
  /\ aln' = NoRecord /\ m' = 0
  /\ n' = 0 /\ pos' = 0
  /\ other_nuc' = 0 /\ other_enc' = n_nucs
  /\ pc' = "read"
  /\ UNCHANGED <<stranded, read_status, mods, methyl_fwd, methyl_rev,
                 hydroxy_fwd, hydroxy_rev, out_open, out, exit_status, n_sites>>

\* sam_read1 returns -1 (end of stream); hts_close
ReadEOF ==
  /\ pc = "read"
  /\ read_status' = EOF_STATUS
  /\ pc' = "closed"
  /\ UNCHANGED <<stranded, aln, m, mods, n, pos, other_nuc, other_enc,
                 methyl_fwd, methyl_rev, hydroxy_fwd, hydroxy_rev, out_open,
                 out, exit_status, n_sites>>

\* sam_read1 returns a negative status below -1; hts_close
ReadError ==
  /\ pc = "read"
  /\ \E st \in ErrStatuses : read_status' = st
  /\ pc' = "closed"
  /\ UNCHANGED <<stranded, aln, m, mods, n, pos, other_nuc, other_enc,
                 methyl_fwd, methyl_rev, hydroxy_fwd, hydroxy_rev, out_open,
                 out, exit_status, n_sites>>

\* "if (read_status < -1) return EXIT_FAILURE"
FailOnReadError ==
  /\ pc = "closed"
  /\ ReadFailed(read_status)
  /\ exit_status' = EXIT_FAILURE
  /\ pc' = "exit"
  /\ UNCHANGED <<stranded, read_status, aln, m, mods, n, pos, other_nuc,
                 other_enc, methyl_fwd, methyl_rev, hydroxy_fwd, hydroxy_rev,
                 out_open, out, n_sites>>

\* std::ofstream out(outfile) succeeds
OpenOutput ==
  /\ pc = "closed"
  /\ ~ReadFailed(read_status)
  /\ out_open' = TRUE
  /\ pc' = "write"
  /\ UNCHANGED <<stranded, read_status, aln, m, mods, n, pos, other_nuc,
                 other_enc, methyl_fwd, methyl_rev, hydroxy_fwd, hydroxy_rev,
                 out, exit_status, n_sites>>

\* std::ofstream out(outfile) fails: runtime_error leaves main
OpenOutputFails ==
  /\ pc = "closed"
  /\ ~ReadFailed(read_status)
  /\ exit_status' = Aborted
  /\ pc' = "exit"
  /\ UNCHANGED <<stranded, read_status, aln, m, mods, n, pos, other_nuc,
                 other_enc, methyl_fwd, methyl_rev, hydroxy_fwd, hydroxy_rev,
                 out_open, out, n_sites>>

\* the selected formatter's output is printed; return EXIT_SUCCESS
WriteReport ==
  /\ pc = "write"
  /\ out' = (IF stranded
               THEN mod_prob_stats_fmt_stranded(methyl_fwd, methyl_rev,
                                                hydroxy_fwd, hydroxy_rev)
               ELSE mod_prob_stats_fmt(methyl_fwd, methyl_rev,
                                       hydroxy_fwd, hydroxy_rev))
  /\ exit_status' = EXIT_SUCCESS
  /\ pc' = "exit"
  /\ UNCHANGED <<stranded, read_status, aln, m, mods, n, pos, other_nuc,
                 other_enc, methyl_fwd, methyl_rev, hydroxy_fwd, hydroxy_rev,
                 out_open, n_sites>>

Next ==
  \/ ReadRecord
  \/ NextSite
  \/ EndSites
  \/ ReadEOF
  \/ ReadError
  \/ FailOnReadError
  \/ OpenOutput
  \/ OpenOutputFails
  \/ WriteReport

Spec == Init /\ [][Next]_vars

\* -------------------------------------------------- the encoder alone
\* Every byte value is looked up once: the lookup of line 109 applied to an
\* arbitrary byte instead of a decoded base.
InitEnc ==
  /\ pc = "encode"
  /\ other_nuc \in 0..255
  /\ other_enc = n_nucs
  /\ stranded = FALSE
  /\ read_status = 0
  /\ aln = NoRecord
  /\ m = 0
  /\ mods = [i \in 0..(max_mods - 1) |-> 0]
  /\ n = 0 /\ pos = 0
  /\ methyl_fwd = ZeroTable /\ methyl_rev = ZeroTable
  /\ hydroxy_fwd = ZeroTable /\ hydroxy_rev = ZeroTable
  /\ out_open = FALSE
  /\ out = NoReport
  /\ exit_status = Running
  /\ n_sites = 0

Encode ==
  /\ pc = "encode"
  /\ other_enc' = encoding[other_nuc]
  /\ pc' = "encoded"
  /\ UNCHANGED <<stranded, read_status, aln, m, mods, n, pos, other_nuc,
                 methyl_fwd, methyl_rev, hydroxy_fwd, hydroxy_rev, out_open,
                 out, exit_status, n_sites>>

NextEnc == Encode

SpecEnc == InitEnc /\ [][NextEnc]_vars

\* ====================================================== properties
\* sums of counters; a row is summed over its non-zero cells
NonZero(row) == {q \in DOMAIN row : row[q] # 0}

RECURSIVE SumOver(_, _)
SumOver(f, S) ==
  IF S = {} THEN 0
  ELSE LET x == CHOOSE y \in S : TRUE IN f[x] + SumOver(f, S \ {x})

RowSum(row) == SumOver(row, NonZero(row))

TableSum(t) == SumOver([c \in DOMAIN t |-> RowSum(t[c])], DOMAIN t)

RawSum ==
  TableSum(methyl_fwd) + TableSum(methyl_rev)
    + TableSum(hydroxy_fwd) + TableSum(hydroxy_rev)

\* a step that processes one call site
SiteStep == n_sites' = n_sites + 1

\* index of the base next to offset p: after it on a forward read, before it
\* on a reverse read
NeighborIndex(rec, p) == IF rec.is_rev THEN p - 1 ELSE p + 1

\* the site at p has no neighbour, or one that is not A, C, G or T
AbsentOrInvalid(rec, p) ==
  LET i == NeighborIndex(rec, p)
  IN \/ i < 0
     \/ i >= Len(rec.seq)
     \/ seq_nt16_str[rec.seq[i + 1]] \notin {65, 67, 71, 84}

\* context index of an upper-case base byte
ContextOf(b) == CASE b = 65 -> 0 [] b = 67 -> 1 [] b = 71 -> 2 [] b = 84 -> 3

ContextKeys == {"CA", "CC", "CG", "CT"}
FwdKey == [i \in 0..3 |-> <<"CA", "CC", "CG", "CT">>[i + 1]]
RevKey == [i \in 0..3 |-> <<"CT", "CG", "CC", "CA">>[i + 1]]

\* C1 (pairing rule): processing a call site for which the enumeration
\* returned a count of 1 changes no cell of the four raw tables.
C1_PairingRule ==
  [][(SiteStep /\ n' = 1) => UNCHANGED raw]_vars

\* C2 (per-site update): a site with both kinds present whose neighbour (the
\* base after it on a forward read, before it on a reverse read) encodes to
\* a context c adds one to hydroxy[strand][c][hq] and to methyl[strand][c][mq]
\* of the read's own strand and changes no other cell of the four tables.
C2_PerSiteUpdate ==
  [][(SiteStep /\ n' >= 2 /\ ~AbsentOrInvalid(aln, pos')) =>
       LET c == ContextOf(seq_nt16_str[aln.seq[NeighborIndex(aln, pos') + 1]])
           hq == mods'[0]
           mq == mods'[1]
       IN IF aln.is_rev
            THEN /\ hydroxy_rev' = [hydroxy_rev EXCEPT ![c][hq] = @ + 1]
                 /\ methyl_rev' = [methyl_rev EXCEPT ![c][mq] = @ + 1]
                 /\ UNCHANGED <<hydroxy_fwd, methyl_fwd>>
            ELSE /\ hydroxy_fwd' = [hydroxy_fwd EXCEPT ![c][hq] = @ + 1]
                 /\ methyl_fwd' = [methyl_fwd EXCEPT ![c][mq] = @ + 1]
                 /\ UNCHANGED <<hydroxy_rev, methyl_rev>>]_vars

\* a reverse-strand site with both kinds present has just been counted
C2_Witness ==
  /\ pc = "mods" /\ n >= 2 /\ aln.is_rev /\ pos > 0
  /\ other_enc = 3
  /\ hydroxy_rev[3][7] >= 1 /\ methyl_rev[3][255] >= 1

\* C3 (strand-collapsed formatting): the collapsed report has, for methyl and
\* for hydroxy, exactly the keys CA, CC, CG, CT, and the value under the i-th
\* key at quality q is forward[i][q] + reverse[3-i][q] of that kind.
C3_Collapse ==
  (pc = "exit" /\ out.layout = "collapsed") =>
    /\ DOMAIN out.methyl = ContextKeys
    /\ DOMAIN out.hydroxy = ContextKeys
    /\ \A i \in 0..3 : \A q \in 0..255 :
         /\ out.methyl[FwdKey[i]][q] = methyl_fwd[i][q] + methyl_rev[3 - i][q]
         /\ out.hydroxy[FwdKey[i]][q] = hydroxy_fwd[i][q] + hydroxy_rev[3 - i][q]

\* a collapsed report in which one cell merges a forward and a reverse count
C3_Witness ==
  /\ pc = "exit" /\ out.layout = "collapsed"
  /\ methyl_fwd[0][255] >= 1 /\ methyl_rev[3][255] >= 1
  /\ out.methyl["CA"][255] >= 2

\* C4 (conservation): the counters of the collapsed report add up to the
\* counters of the four raw tables.
C4_Conservation ==
  (pc = "exit" /\ out.layout = "collapsed") =>
    TableSum(out.methyl) + TableSum(out.hydroxy) = RawSum

\* a collapsed report of a run that counted sites on both strands
C4_Witness ==
  /\ pc = "exit" /\ out.layout = "collapsed"
  /\ TableSum(methyl_fwd) >= 1 /\ TableSum(hydroxy_rev) >= 1
  /\ RawSum >= 4

\* C5 (strand-separated formatting): the stranded report has four maps of
\* exactly four entries; forward row i is found unchanged under CA, CC, CG, CT
\* and reverse row i under CT, CG, CC, CA, so the raw tables are read back
\* from the report.
C5_Separate ==
  (pc = "exit" /\ out.layout = "stranded") =>
    /\ \A mp \in {out.methyl_fwd, out.methyl_rev, out.hydroxy_fwd, out.hydroxy_rev} :
         DOMAIN mp = ContextKeys /\ Cardinality(DOMAIN mp) = 4
    /\ [i \in 0..3 |-> out.methyl_fwd[FwdKey[i]]] = methyl_fwd
    /\ [i \in 0..3 |-> out.hydroxy_fwd[FwdKey[i]]] = hydroxy_fwd
    /\ [i \in 0..3 |-> out.methyl_rev[RevKey[i]]] = methyl_rev
    /\ [i \in 0..3 |-> out.hydroxy_rev[RevKey[i]]] = hydroxy_rev

\* a stranded report with a reverse-strand count under its mirrored name
C5_Witness ==
  /\ pc = "exit" /\ out.layout = "stranded"
  /\ methyl_rev[0][255] >= 1 /\ out.methyl_rev["CT"][255] >= 1
  /\ hydroxy_fwd[0][7] >= 1 /\ out.hydroxy_fwd["CA"][7] >= 1

\* C6 (boundary neighbours): a site on a forward read at the last offset, on
\* a reverse read at offset 0, or with a neighbour that is not A, C, G or T
\* changes no table, and the run goes on without an error.
C6_BoundaryNeighbors ==
  [][(SiteStep /\ AbsentOrInvalid(aln, pos')) =>
       (UNCHANGED raw /\ pc' = "mods" /\ exit_status' = Running)]_vars

\* a site with both kinds present at the last offset of a forward read
C6_Witness ==
  /\ pc = "mods" /\ n >= 2 /\ ~aln.is_rev
  /\ pos + 1 >= Len(aln.seq)
  /\ other_nuc = 0 /\ other_enc = 4

\* C7 (encoder totality): every byte encodes to 0..4; 'A', 'C', 'G', 'T'
\* encode to 0, 1, 2, 3 and every other byte to 4.
C7_EncoderTotal ==
  pc = "encoded" =>
    /\ other_enc \in 0..4
    /\ (other_nuc = 65 => other_enc = 0)
    /\ (other_nuc = 67 => other_enc = 1)
    /\ (other_nuc = 71 => other_enc = 2)
    /\ (other_nuc = 84 => other_enc = 3)
    /\ (other_nuc \notin {65, 67, 71, 84} => other_enc = 4)

\* the lower-case 't' has been looked up
C7_Witness == pc = "encoded" /\ other_nuc = 116 /\ other_enc = 4

\* C8 (stream read failure): after a read status below -1 the sink is never
\* opened, no report is written and the run ends with a non-zero status; a
\* report is written only after status -1, and it is one formatter's output
\* for the tables as the last record left them.
C8_ReadFailure ==
  /\ (read_status < -1 => ~out_open /\ out = NoReport)
  /\ ((pc = "closed" /\ read_status < -1) => ~ENABLED OpenOutput)
  /\ ((pc = "exit" /\ read_status < -1) =>
        exit_status = EXIT_FAILURE /\ exit_status # 0)
  /\ (out # NoReport =>
        /\ read_status = -1 /\ out_open /\ pc = "exit"
        /\ out \in {mod_prob_stats_fmt(methyl_fwd, methyl_rev,
                                       hydroxy_fwd, hydroxy_rev),
                    mod_prob_stats_fmt_stranded(methyl_fwd, methyl_rev,
                                                hydroxy_fwd, hydroxy_rev)})

\* a run that failed reading after a record with a counted site
C8_Witness ==
  /\ pc = "exit" /\ read_status < -1
  /\ n_sites >= 1 /\ RawSum >= 2
  /\ exit_status = EXIT_FAILURE /\ out = NoReport

\* C9 (the two layouts agree): for the tables handed to the formatters, under
\* every key and quality the collapsed value is the sum of the stranded
\* forward and reverse values of the same kind.
C9_LayoutsAgree ==
  pc = "write" =>
    LET c == mod_prob_stats_fmt(methyl_fwd, methyl_rev, hydroxy_fwd, hydroxy_rev)
        s == mod_prob_stats_fmt_stranded(methyl_fwd, methyl_rev,
                                         hydroxy_fwd, hydroxy_rev)
    IN \A k \in ContextKeys : \A q \in 0..255 :
         /\ c.methyl[k][q] = s.methyl_fwd[k][q] + s.methyl_rev[k][q]
         /\ c.hydroxy[k][q] = s.hydroxy_fwd[k][q] + s.hydroxy_rev[k][q]

\* tables with a reverse-strand count are about to be formatted
C9_Witness ==
  /\ pc = "write"
  /\ methyl_rev[0][255] >= 1 /\ hydroxy_rev[0][7] >= 1
  /\ hydroxy_fwd[3][7] >= 1

\* C10 (paired counting): after any sequence of processed records, for each
\* strand and context the hydroxy row and the methyl row have the same total.
C10_PairedCounting ==
  pc = "read" =>
    \A c \in 0..3 :
      /\ RowSum(hydroxy_fwd[c]) = RowSum(methyl_fwd[c])
      /\ RowSum(hydroxy_rev[c]) = RowSum(methyl_rev[c])

\* two sites of one reverse-strand context have been counted, one of them
\* with the methyl quality the scratch buffer started with
C10_Witness ==
  /\ pc = "read"
  /\ RowSum(hydroxy_rev[0]) = 2
  /\ methyl_rev[0][0] = 1 /\ methyl_rev[0][255] = 1

====
